---------------------------- MODULE Spec2Model ----------------------------
(***************************************************************************)
(* A model of tree.py: the class Tree (an n-ary tree whose nodes carry a   *)
(* name, a branch length and a comment), its three traversal generators,   *)
(* the Newick reader newickLoad and writer newick, and orderBySize.        *)
(*                                                                         *)
(* The heap is a sequence of Tree objects; an object's identity is its     *)
(* index.  A Python string is a sequence of one-character strings.  An     *)
(* attribute that may be None is <<>> when it is None and <<v>> when it    *)
(* holds v, so that None, '' and 0.0 stay three different things.          *)
(***************************************************************************)
EXTENDS Integers, Sequences, FiniteSets, TLC

VARIABLES heap, last

vars == <<heap, last>>

(***************************************************************************)
(* Bounds of the model.                                                    *)
(***************************************************************************)
MaxNodes == 4
MaxTrees == 2
MaxShape == 5

None == <<>>
Some(v) == <<v>>

Modes == {"dfs_stack", "dfs", "bfs"}
Dirs == {"left", "right"}

Nodes(h) == 1..Len(h)

(***************************************************************************)
(* Sequence helpers.                                                       *)
(***************************************************************************)
Reverse(s) == [i \in 1..Len(s) |-> s[Len(s) + 1 - i]]

RECURSIVE ConcatAll(_)
ConcatAll(ss) == IF ss = <<>> THEN <<>> ELSE Head(ss) \o ConcatAll(Tail(ss))

RECURSIVE SumSeq(_)
SumSeq(s) == IF s = <<>> THEN 0 ELSE Head(s) + SumSeq(Tail(s))

Range(s) == {s[i] : i \in 1..Len(s)}

NoDup(s) == \A i, j \in 1..Len(s) : s[i] = s[j] => i = j

(***************************************************************************)
(* The fields a constructor sets before it reads its arguments.            *)
(***************************************************************************)
NewNode == [name |-> None, branchlen |-> None, children |-> <<>>,
            comment |-> None, mode |-> "dfs_stack"]

\* The last call the caller made, and what came back: the observable result
\* of an operation.
NoCall == [op |-> "none", node |-> 0, text |-> <<>>, ret |-> "", seq |-> <<>>,
           prev |-> <<>>, again |-> FALSE, count |-> 0]

(***************************************************************************)
(* The traversal generators, each as the sequence of nodes it yields.      *)
(***************************************************************************)
RECURSIVE dfs(_, _)
dfs(h, n) ==
    <<n>> \o ConcatAll([i \in 1..Len(h[n].children) |-> dfs(h, h[n].children[i])])

\* A bfsNoRoot that yields the children and forgets its second loop.
bfsNoRootChildrenOnly(h, n) == h[n].children

RECURSIVE bfsNoRoot(_, _)
bfsNoRoot(h, n) ==
    h[n].children
      \o ConcatAll([i \in 1..Len(h[n].children) |-> bfsNoRoot(h, h[n].children[i])])

bfs(h, n) == <<n>> \o bfsNoRoot(h, n)

\* The while loop of tree_gen_stack: pop the last element, yield it, push its
\* children reversed.
RECURSIVE StackLoop(_, _)
StackLoop(h, stack) ==
    IF stack = <<>> THEN <<>>
    ELSE LET node == stack[Len(stack)]
             rest == SubSeq(stack, 1, Len(stack) - 1)
         IN  <<node>> \o StackLoop(h, rest \o Reverse(h[node].children))

RECURSIVE StackLoopForward(_, _)
StackLoopForward(h, stack) ==
    IF stack = <<>> THEN <<>>
    ELSE LET node == stack[Len(stack)]
             rest == SubSeq(stack, 1, Len(stack) - 1)
         IN  <<node>> \o StackLoopForward(h, rest \o h[node].children)

\* tree_gen_stack with the children pushed in list order, not reversed.
tree_gen_stack_forward(h, n) == StackLoopForward(h, <<n>>)

tree_gen_stack(h, n) == StackLoop(h, <<n>>)

\* An __iter__ that hands out one stored generator, which is spent after the
\* first complete pass.
IterStored(h, n) ==
    IF last.op = "do" /\ last.node = n THEN <<>>
    ELSE IF h[n].mode = "dfs_stack" THEN tree_gen_stack(h, n)
    ELSE IF h[n].mode = "dfs" THEN dfs(h, n)
    ELSE bfs(h, n)

\* __iter__: a new generator on every call, chosen by the node's mode.
Iter(h, n) ==
    IF h[n].mode = "dfs_stack" THEN tree_gen_stack(h, n)
    ELSE IF h[n].mode = "dfs" THEN dfs(h, n)
    ELSE bfs(h, n)

order(h, n) == <<n>> \o Iter(h, n)

IsLeaf(h, n) == h[n].children = <<>>

leaves(h, n) == SelectSeq(Iter(h, n), LAMBDA x : IsLeaf(h, x))

size(h, n) == Len(Iter(h, n))

(***************************************************************************)
(* sorted(list, key=bySize, reverse=...): a stable sort; with reverse=True *)
(* equal elements still keep their original order.                         *)
(***************************************************************************)
RECURSIVE InsertBySize(_, _, _, _)
InsertBySize(h, s, x, dir) ==
    IF s = <<>> THEN <<x>>
    ELSE IF (dir = "left" /\ size(h, Head(s)) < size(h, x))
              \/ (dir # "left" /\ size(h, Head(s)) > size(h, x))
         THEN <<x>> \o s
         ELSE <<Head(s)>> \o InsertBySize(h, Tail(s), x, dir)

RECURSIVE sorted(_, _, _)
sorted(h, s, dir) ==
    IF s = <<>> THEN <<>>
    ELSE InsertBySize(h, sorted(h, SubSeq(s, 1, Len(s) - 1), dir), s[Len(s)], dir)

\* The body of orderBySize's loop, run for each node the traversal yields:
\* when the visited node has children, self.children is sorted.
RECURSIVE OrderLoop(_, _, _, _)
OrderLoop(h, self, visit, dir) ==
    IF visit = <<>> THEN h
    ELSE LET h1 == IF h[Head(visit)].children # <<>>
                   THEN [h EXCEPT ![self].children = sorted(h, h[self].children, dir)]
                   ELSE h
         IN  OrderLoop(h1, self, Tail(visit), dir)

\* Every generator yields its first node, self, before it reads
\* self.children, so the rest of the traversal runs over the list the first
\* pass of the loop body has left.  A traversal that yields nothing runs the
\* body not at all.
orderBySizeHeap(h, self, dir) ==
    IF Iter(h, self) = <<>> THEN h
    ELSE LET h1 == OrderLoop(h, self, <<Head(Iter(h, self))>>, dir)
         IN  OrderLoop(h1, self, Tail(Iter(h1, self)), dir)

(***************************************************************************)
(* Strings.                                                                *)
(***************************************************************************)
isspace(c) == c \in {" ", "\n", "\t"}

RECURSIVE lstrip(_)
lstrip(s) == IF s # <<>> /\ isspace(Head(s)) THEN lstrip(Tail(s)) ELSE s

RECURSIVE rstripSpace(_)
rstripSpace(s) ==
    IF s # <<>> /\ isspace(s[Len(s)]) THEN rstripSpace(SubSeq(s, 1, Len(s) - 1)) ELSE s

strip(s) == rstripSpace(lstrip(s))

RECURSIVE rstrip(_, _)
rstrip(s, c) ==
    IF s # <<>> /\ s[Len(s)] = c THEN rstrip(SubSeq(s, 1, Len(s) - 1), c) ELSE s

Count(s, c) == Cardinality({i \in 1..Len(s) : s[i] = c})

\* The place of the first c in s; used only when s holds one.
Find(s, c) == CHOOSE i \in 1..Len(s) : s[i] = c /\ \A j \in 1..(i - 1) : s[j] # c

Before(s, c) == SubSeq(s, 1, Find(s, c) - 1)
After(s, c) == SubSeq(s, Find(s, c) + 1, Len(s))

\* str.replace(c, ''): every c removed.
Remove(s, c) == SelectSeq(s, LAMBDA x : x # c)

(***************************************************************************)
(* float() and str() of a float.  A float is [m, e], the number m / 10^e   *)
(* with e as small as it can be, so one number has one representation.     *)
(* float() is modelled on unsigned decimal literals (digits with at most   *)
(* one point); the texts of this model hold no sign, exponent or inf/nan,  *)
(* and every other text is the ValueError float() raises for it.  str() is *)
(* modelled on the range where Python writes positional notation.          *)
(***************************************************************************)
Digits == <<"0", "1", "2", "3", "4", "5", "6", "7", "8", "9">>

IsDigit(c) == c \in Range(Digits)

DigitVal(c) == (CHOOSE i \in 1..10 : Digits[i] = c) - 1

RECURSIVE Pow10(_)
Pow10(e) == IF e = 0 THEN 1 ELSE 10 * Pow10(e - 1)

RECURSIVE DigitsVal(_)
DigitsVal(s) ==
    IF s = <<>> THEN 0 ELSE 10 * DigitsVal(SubSeq(s, 1, Len(s) - 1)) + DigitVal(s[Len(s)])

RECURSIVE Normal(_)
Normal(v) ==
    IF v.e > 0 /\ v.m % 10 = 0 THEN Normal([m |-> v.m \div 10, e |-> v.e - 1]) ELSE v

FloatOk(s) ==
    /\ \A i \in 1..Len(s) : IsDigit(s[i]) \/ s[i] = "."
    /\ Count(s, ".") <= 1
    /\ \E i \in 1..Len(s) : IsDigit(s[i])

float(s) ==
    LET ds == Remove(s, ".")
        e  == IF Count(s, ".") = 1 THEN Len(After(s, ".")) ELSE 0
    IN  Normal([m |-> DigitsVal(ds), e |-> e])

RECURSIVE NatStr(_)
NatStr(k) == IF k < 10 THEN <<Digits[k + 1]>> ELSE NatStr(k \div 10) \o <<Digits[(k % 10) + 1]>>

RECURSIVE Pad(_, _)
Pad(s, w) == IF Len(s) >= w THEN s ELSE Pad(<<"0">> \o s, w)

\* str(x) of a float: the shortest text that reads back as x; a whole number
\* is written with ".0".
str(v) ==
    NatStr(v.m \div Pow10(v.e)) \o <<".">>
      \o (IF v.e = 0 THEN <<"0">> ELSE Pad(NatStr(v.m % Pow10(v.e)), v.e))

IsZero(v) == v.m = 0

(***************************************************************************)
(* The payload of a node.                                                  *)
(***************************************************************************)
\* infoAdd(word) on the object nd: the object as the call leaves it, and the
\* exception it raised, if any.  An assignment made before the exception stays.
infoAdd(nd, word) ==
    IF word = <<>> THEN [node |-> nd, err |-> ""]
    ELSE IF Count(word, ":") = 0
         THEN [node |-> [nd EXCEPT !.name = Some(word)], err |-> ""]
    ELSE IF Count(word, ":") > 1
         THEN [node |-> [nd EXCEPT !.name = Some(word)], err |-> "ValueError"]
    ELSE LET nm   == Before(word, ":")
             rest == After(word, ":")
             nd1  == [nd EXCEPT !.name = Some(nm)]
         IN  IF Count(rest, "[") = 0
             THEN IF FloatOk(rest)
                  THEN [node |-> [nd1 EXCEPT !.branchlen = Some(float(rest))], err |-> ""]
                  ELSE [node |-> nd1, err |-> "ValueError"]
             ELSE IF Count(rest, "[") > 1
                  THEN [node |-> nd1, err |-> "ValueError"]
             ELSE LET dist == Before(rest, "[")
                      cmt  == After(rest, "[")
                  IN  IF FloatOk(dist)
                      THEN [node |-> [nd1 EXCEPT !.branchlen = Some(float(dist)),
                                                 !.comment = Some(Remove(cmt, "]"))],
                            err |-> ""]
                      ELSE [node |-> nd1, err |-> "ValueError"]

\* A field is written only when it is true for Python: not None, not '' and
\* not 0.0.
infoGet(nd) ==
    (IF nd.name # None /\ nd.name[1] # <<>> THEN nd.name[1] ELSE <<>>)
      \o (IF nd.branchlen # None /\ ~IsZero(nd.branchlen[1])
          THEN <<":">> \o str(nd.branchlen[1]) ELSE <<>>)
      \o (IF nd.comment # None /\ nd.comment[1] # <<>>
          THEN <<"[">> \o nd.comment[1] \o <<"]">> ELSE <<>>)

RECURSIVE newick(_, _)
RECURSIVE NewickChildren(_, _, _)
NewickChildren(h, cs, punct) ==
    IF cs = <<>> THEN <<>>
    ELSE punct \o newick(h, Head(cs)) \o NewickChildren(h, Tail(cs), <<",">>)

newick(h, n) ==
    IF h[n].children # <<>>
    THEN NewickChildren(h, h[n].children, <<"(">>) \o <<")">> \o infoGet(h[n])
    ELSE infoGet(h[n])

(***************************************************************************)
(* newickLoad.  The scanner's state: the heap, the stack of open parents,  *)
(* the current node, the word read so far, and the exception raised.       *)
(***************************************************************************)
\* createNode() is Tree(): infoAdd('') changes nothing.
createNode(h) == Append(h, NewNode)

OnOpen(st) ==
    LET newnode == Len(st.h) + 1
    IN  [st EXCEPT !.h = [createNode(st.h) EXCEPT ![st.node].children = Append(@, newnode)],
                   !.stack = Append(st.stack, st.node),
                   !.node = newnode,
                   !.word = <<>>]

\* A comma that pops the parent instead of reading the top of the stack.
OnCommaPop(st) ==
    LET r == infoAdd(st.h[st.node], st.word)
        h1 == [st.h EXCEPT ![st.node] = r.node]
    IN  IF r.err # "" THEN [st EXCEPT !.h = h1, !.err = r.err]
        ELSE IF st.stack = <<>> THEN [st EXCEPT !.h = h1, !.err = "IndexError"]
        ELSE LET parent  == st.stack[Len(st.stack)]
                 newnode == Len(h1) + 1
             IN  [st EXCEPT !.h = [createNode(h1) EXCEPT ![parent].children = Append(@, newnode)],
                            !.stack = SubSeq(st.stack, 1, Len(st.stack) - 1),
                            !.node = newnode,
                            !.word = <<>>]

OnComma(st) ==
    LET r == infoAdd(st.h[st.node], st.word)
        h1 == [st.h EXCEPT ![st.node] = r.node]
    IN  IF r.err # "" THEN [st EXCEPT !.h = h1, !.err = r.err]
        ELSE IF st.stack = <<>> THEN [st EXCEPT !.h = h1, !.err = "IndexError"]
        ELSE LET parent  == st.stack[Len(st.stack)]
                 newnode == Len(h1) + 1
             IN  [st EXCEPT !.h = [createNode(h1) EXCEPT ![parent].children = Append(@, newnode)],
                            !.node = newnode,
                            !.word = <<>>]

OnClose(st) ==
    LET r == infoAdd(st.h[st.node], st.word)
        h1 == [st.h EXCEPT ![st.node] = r.node]
    IN  IF r.err # "" THEN [st EXCEPT !.h = h1, !.err = r.err]
        ELSE IF st.stack = <<>> THEN [st EXCEPT !.h = h1, !.err = "IndexError"]
        ELSE [st EXCEPT !.h = h1,
                        !.node = st.stack[Len(st.stack)],
                        !.stack = SubSeq(st.stack, 1, Len(st.stack) - 1),
                        !.word = <<>>]

\* The for loop over the letters, stopped by the first exception.
RECURSIVE Scan(_, _)
Scan(st, rest) ==
    IF rest = <<>> \/ st.err # "" THEN st
    ELSE LET letter == Head(rest)
         IN  Scan(IF isspace(letter) THEN st
                  ELSE IF letter = "(" THEN OnOpen(st)
                  ELSE IF letter = "," THEN OnComma(st)
                  ELSE IF letter = ")" THEN OnClose(st)
                  ELSE [st EXCEPT !.word = Append(@, letter)],
                  Tail(rest))

\* self.newickLoad(text): the heap it leaves and what the caller gets, the
\* value returned ("True", "False") or the exception raised.
newickLoad(h, self, text) ==
    LET nw == rstrip(strip(text), ";")
    IN  IF nw = <<>> THEN [h |-> h, ret |-> "IndexError"]
        ELSE IF nw[1] # "(" THEN [h |-> h, ret |-> "False"]
        ELSE LET st == Scan([h |-> h, stack |-> <<self>>, node |-> self,
                             word |-> <<>>, err |-> ""], nw)
             IN  IF st.err # "" THEN [h |-> st.h, ret |-> st.err]
                 ELSE LET r == infoAdd(st.h[self], st.word)
                      IN  [h |-> [st.h EXCEPT ![self] = r.node],
                           ret |-> IF r.err # "" THEN r.err ELSE "True"]

(***************************************************************************)
(* The texts handed to the reader.  trees0 and trees1 are the first two    *)
(* test trees of the module's own test section; DeepTree has two subtrees  *)
(* of different depth side by side, Nested a node below the root whose     *)
(* children differ in size.                                                *)
(***************************************************************************)
trees0 ==
    <<"(", "(", "a", ",", "b", ")", ",", "(", "c", ",", "d", ",", "e", ")",
      ",", "f", ")", ";">>

trees1 ==
    <<"(", "(", "a", ":", "1", ",", "b", ":", "2", ")", ":", "3", "[", "1",
      "0", "0", "]", ",", "(", "c", ":", "3", ",", "d", ":", "4", ",", "e",
      ":", "5", ")", ":", "2", "[", "9", "5", ".", "1", "]", ",", "f", ":",
      "6", ")", ":", "2", ";">>

DeepTree ==
    <<"(", "(", "(", "x", ")", "a", ")", "b", ",", "(", "c", ")", "d", ")">>

Nested ==
    <<"(", "(", "a", ",", "(", "b", ",", "c", ")", ")", ",", "d", ")">>

BadLength ==
    <<"(", "a", ":", "x", "y", "z", ")">>

Blank ==
    <<" ", ";">>

Corpus == {trees0, trees1, DeepTree, Nested, BadLength, Blank}

\* Payloads of every form infoAdd lists, with a zero length, an empty
\* comment and a length that is no number among them.
Payloads ==
    {<<>>,
     <<"a">>,
     <<"b", ":", "0">>,
     <<"a", ":", "1", ".", "5">>,
     <<":", "2">>,
     <<"a", ":", "1", "[", "x", "]">>,
     <<":", "0", ".", "5", "0", "[", "y", "]">>,
     <<"b", ":", "3", "[", "]">>,
     <<"a", ":", "x">>}

PayloadTexts ==
    {<<"(">> \o p \o <<",">> \o q \o <<")">> \o r : p \in Payloads, q \in Payloads, r \in Payloads}

ShapeChars == {"(", ")", ",", "a"}

\* Every text of at most MaxShape characters over the punctuation and a name.
ShapeTexts == UNION {[1..k -> ShapeChars] : k \in 0..MaxShape}

Texts == Corpus \cup PayloadTexts \cup ShapeTexts

(***************************************************************************)
(* The structure of the forest.                                            *)
(***************************************************************************)
IsRoot(h, n) == \A p \in Nodes(h) : n \notin Range(h[p].children)

Roots(h) == {n \in Nodes(h) : IsRoot(h, n)}

InSubtree(h, x, n) == x \in Range(dfs(h, n))

(***************************************************************************)
(* Operations of the class.                                                *)
(***************************************************************************)
\* Tree(name): a node with no children, its payload read by infoAdd(name);
\* a name that makes infoAdd raise builds no node.  Tree() leaves the name None and
\* childNew always sets one, so the nodes without a name are the ones the
\* caller has built with Tree(); at most MaxTrees are built.
Tree(nm) ==
    /\ Len(heap) < MaxNodes
    /\ Cardinality({n \in Nodes(heap) : heap[n].name = None}) < MaxTrees
    /\ infoAdd(NewNode, nm).err = ""
    /\ heap' = Append(heap, infoAdd(NewNode, nm).node)
    /\ last' = NoCall

childNew(p, nm) ==
    /\ Len(heap) < MaxNodes
    /\ LET newnode == Len(heap) + 1
       IN  heap' = [Append(heap, [NewNode EXCEPT !.name = Some(nm)])
                      EXCEPT ![p].children = Append(@, newnode)]
    /\ last' = NoCall

\* The caller keeps the structure a tree: the subtree is a root and does not
\* hold the node it is added to.
childAdd(p, subtree) ==
    /\ IsRoot(heap, subtree)
    /\ ~InSubtree(heap, p, subtree)
    /\ heap' = [heap EXCEPT ![p].children = Append(@, subtree)]
    /\ last' = NoCall

modeSet(n, m) ==
    /\ heap[n].mode # m
    /\ heap' = [heap EXCEPT ![n].mode = m]
    /\ last' = NoCall

orderBySize(n, dir) ==
    /\ heap' = orderBySizeHeap(heap, n, dir)
    /\ last' = NoCall

\* do(function) with a function that leaves the tree alone: seq is the nodes
\* the function was called on, count the number returned.  again says that
\* the call before this one was a do() of the same node, and prev is what
\* that pass yielded.
do(n) ==
    /\ last' = [NoCall EXCEPT !.op = "do", !.node = n,
                              !.seq = Iter(heap, n),
                              !.count = Len(Iter(heap, n)),
                              !.again = (last.op = "do" /\ last.node = n),
                              !.prev = IF last.op = "do" /\ last.node = n
                                       THEN last.seq ELSE <<>>]
    /\ UNCHANGED heap

Names == {<<"a">>}
CtorNames == {<<>>}

Init ==
    /\ heap = <<>>
    /\ last = NoCall

\* The caller sets the mode of, reorders and iterates the trees it holds,
\* which are the roots; a tree added to another keeps the mode it was given.
Next ==
    \/ \E nm \in CtorNames : Tree(nm)
    \/ \E p \in Nodes(heap), nm \in Names : childNew(p, nm)
    \/ \E p, s \in Nodes(heap) : childAdd(p, s)
    \/ \E n \in Roots(heap), m \in Modes : modeSet(n, m)
    \/ \E n \in Roots(heap), d \in Dirs : orderBySize(n, d)
    \/ \E n \in Roots(heap) : do(n)

Spec == Init /\ [][Next]_vars

(***************************************************************************)
(* The reader's callers.                                                   *)
(***************************************************************************)
\* Both constructions start from an empty heap.
Fresh == heap = <<>>

\* root = Tree(mode=m); root.newickLoad(text)
Load(text, m) ==
    /\ Fresh
    /\ LET r == newickLoad(<<[NewNode EXCEPT !.mode = m]>>, 1, text)
       IN  /\ heap' = r.h
           /\ last' = [NoCall EXCEPT !.op = "newickLoad", !.node = 1,
                                     !.text = text, !.ret = r.ret]

\* root = Tree(newick=text): the constructor calls newickLoad when the text
\* is not empty and drops what it returns; an exception leaves the caller
\* with no object.
TreeNewick(text) ==
    /\ Fresh
    /\ LET r == IF text # <<>> THEN newickLoad(<<NewNode>>, 1, text)
                ELSE [h |-> <<infoAdd(NewNode, <<>>).node>>, ret |-> "True"]
       IN  /\ heap' = r.h
           /\ last' = [NoCall EXCEPT !.op = "Tree", !.node = 1, !.text = text,
                                     !.ret = IF r.ret \in {"True", "False"}
                                             THEN "constructed" ELSE r.ret]

\* second = Tree(); second.newickLoad(root.newick()) after a load that
\* returned True.  text stays the text first read, seq is the text written.
RoundTrip ==
    /\ last.op = "newickLoad"
    /\ last.ret = "True"
    /\ LET second == Len(heap) + 1
           out    == newick(heap, 1)
           r      == newickLoad(Append(heap, NewNode), second, out)
       IN  /\ heap' = r.h
           /\ last' = [NoCall EXCEPT !.op = "reload", !.node = second,
                                     !.text = last.text, !.seq = out, !.ret = r.ret]

\* root.orderBySize(dir) on the tree a load that returned True has built.
Reorder(dir) ==
    /\ last.op = "newickLoad"
    /\ last.ret = "True"
    /\ heap' = orderBySizeHeap(heap, 1, dir)
    /\ last' = [last EXCEPT !.op = "orderBySize", !.ret = dir]

NextNewick ==
    \/ Fresh /\ \E text \in Texts, m \in Modes : Load(text, m)
    \/ Fresh /\ \E text \in Texts : TreeNewick(text)
    \/ RoundTrip
    \/ \E dir \in Dirs : Reorder(dir)

SpecNewick == Init /\ [][NextNewick]_vars

(***************************************************************************)
(* What the claims speak of, stated on the text or on the tree and not     *)
(* through the reader or the traversals.                                   *)
(***************************************************************************)
IsPunct(c) == c \in {"(", ")", ","}

\* The letters the scanner acts on: no white space, no closing semicolons.
Clean(text) == SelectSeq(rstrip(strip(text), ";"), LAMBDA c : ~isspace(c))

\* Open parentheses minus closed ones among the first i letters.
Level(t, i) ==
    Cardinality({j \in 1..i : t[j] = "("}) - Cardinality({j \in 1..i : t[j] = ")"})

BeginsWithParen(text) == Clean(text) # <<>> /\ Clean(text)[1] = "("

\* The first character that is no white space is there and is not "(".
FirstIsNotParen(text) == lstrip(text) # <<>> /\ Head(lstrip(text)) # "("

\* More ")" than "(" (a ")" or a "," with no parent open), or fewer.
Unbalanced(text) ==
    LET t == Clean(text)
    IN  \/ Level(t, Len(t)) # 0
        \/ \E i \in 1..Len(t) : t[i] \in {")", ","} /\ Level(t, i - 1) <= 0

PlainChar(c) == ~IsPunct(c) /\ c \notin {":", "[", "]"}

\* name, name:length, name:length[comment], :length, :length[comment]; an
\* unnamed node has no payload at all.
PayloadOk(w) ==
    \/ \A i \in 1..Len(w) : PlainChar(w[i])
    \/ /\ Count(w, ":") = 1
       /\ \A i \in 1..Len(Before(w, ":")) : PlainChar(Before(w, ":")[i])
       /\ LET rest == After(w, ":")
          IN  \/ FloatOk(rest)
              \/ /\ Count(rest, "[") = 1
                 /\ FloatOk(Before(rest, "["))
                 /\ LET c == After(rest, "[")
                    IN  /\ c # <<>>
                        /\ c[Len(c)] = "]"
                        /\ \A i \in 1..(Len(c) - 1) : PlainChar(c[i])

\* The payload that ends just before place i of t.
PayloadBefore(t, i) ==
    LET from == CHOOSE k \in 1..i :
                    /\ \A j \in k..(i - 1) : ~IsPunct(t[j])
                    /\ (k = 1 \/ IsPunct(t[k - 1]))
    IN  SubSeq(t, from, i - 1)

WellFormed(text) ==
    LET t == Clean(text)
    IN  /\ t # <<>>
        /\ t[1] = "("
        /\ Level(t, Len(t)) = 0
        /\ \A i \in 2..Len(t) :
              /\ IsPunct(t[i]) => Level(t, i - 1) >= 1
              /\ t[i] = "(" => t[i - 1] \in {"(", ","}
        /\ \A i \in 2..(Len(t) + 1) :
              (i = Len(t) + 1 \/ IsPunct(t[i])) => PayloadOk(PayloadBefore(t, i))

\* The name a payload gives its node.
LabelName(w) ==
    IF w = <<>> THEN None ELSE IF Count(w, ":") = 0 THEN Some(w) ELSE Some(Before(w, ":"))

\* The names of the leaves as the text lists them: a payload closed by ","
\* or ")" and opened by "(" or "," is a leaf's.
LeafLabels(text) ==
    LET t == Clean(text)
        at == SelectSeq([i \in 1..Len(t) |-> i],
                        LAMBDA i : /\ t[i] \in {",", ")"}
                                   /\ LET w == PayloadBefore(t, i)
                                      IN  i - Len(w) - 1 >= 1
                                          /\ t[i - Len(w) - 1] \in {"(", ","})
    IN  [k \in 1..Len(at) |-> LabelName(PayloadBefore(t, at[k]))]

RECURSIVE SameTree(_, _, _)
SameTree(h, a, b) ==
    /\ h[a].name = h[b].name
    /\ h[a].branchlen = h[b].branchlen
    /\ h[a].comment = h[b].comment
    /\ Len(h[a].children) = Len(h[b].children)
    /\ \A i \in 1..Len(h[a].children) : SameTree(h, h[a].children[i], h[b].children[i])

\* The nodes of the tree under n, by reachability.
RECURSIVE Reach(_, _)
Reach(h, S) ==
    LET T == S \cup UNION {Range(h[x].children) : x \in S}
    IN  IF T = S THEN S ELSE Reach(h, T)

Subtree(h, n) == Reach(h, {n})

RECURSIVE DepthBelow(_, _, _)
DepthBelow(h, n, x) ==
    IF x = n THEN 0
    ELSE 1 + DepthBelow(h, n, CHOOSE p \in Subtree(h, n) : x \in Range(h[p].children))

SortedBySize(h, n, dir) ==
    \A i \in 1..(Len(h[n].children) - 1) :
        IF dir = "left"
        THEN size(h, h[n].children[i]) >= size(h, h[n].children[i + 1])
        ELSE size(h, h[n].children[i]) <= size(h, h[n].children[i + 1])

(***************************************************************************)
(* The claims.                                                             *)
(***************************************************************************)
\* C1: a well-formed text read, written and read again gives a second tree
\* of the same shape with the same name, branch length and comment at every
\* node, None being different from 0.0 and from ''.
C1_RoundTrip ==
    (last.op = "reload" /\ WellFormed(last.text))
        => (last.ret = "True" /\ SameTree(heap, 1, last.node))

\* C2: after orderBySize every node of the tree with children, not the root
\* alone, has them in descending ('left') or ascending (otherwise) order of
\* size.
C2_SortedAtEveryNode ==
    last.op = "orderBySize"
        => \A n \in Subtree(heap, last.node) : SortedBySize(heap, n, last.ret)

\* C3: newickLoad of a text that begins with "(" and whose parentheses do
\* not balance never returns True.
C3_UnbalancedIsReported ==
    (last.op = "newickLoad" /\ BeginsWithParen(last.text) /\ Unbalanced(last.text))
        => last.ret # "True"

\* C4: a text whose first character that is no white space is not "(" is an
\* error for the caller of newickLoad (False or an exception) and for the
\* caller of Tree(newick=text), who gets no constructed tree.
C4_MissingParenIsSurfaced ==
    (last.op \in {"newickLoad", "Tree"} /\ FirstIsNotParen(last.text))
        => last.ret \notin {"True", "constructed"}

\* C5: bfs() is level order: the node itself first, every node of the tree
\* once, and depths that never decrease along the sequence.
C5_LevelOrder ==
    \A n \in Nodes(heap) :
        LET s == bfs(heap, n)
        IN  /\ s[1] = n
            /\ NoDup(s)
            /\ Range(s) = Subtree(heap, n)
            /\ \A i \in 1..(Len(s) - 1) :
                   DepthBelow(heap, n, s[i]) <= DepthBelow(heap, n, s[i + 1])

\* C6: order() is the active traversal as a list: the nodes iteration gives,
\* in that order, each node once, so its length is size().
C6_OrderIsTheTraversal ==
    \A n \in Nodes(heap) :
        /\ order(heap, n) = Iter(heap, n)
        /\ NoDup(order(heap, n))
        /\ Len(order(heap, n)) = size(heap, n)

\* C7: dfs() and tree_gen_stack() yield the same nodes in the same order,
\* the node itself first.
C7_StackIsDfs ==
    \A n \in Nodes(heap) :
        /\ tree_gen_stack(heap, n) = dfs(heap, n)
        /\ tree_gen_stack(heap, n)[1] = n

C7_Witness ==
    \E n \in Nodes(heap) :
        /\ Len(heap[n].children) >= 2
        /\ heap[heap[n].children[1]].children # <<>>
        /\ dfs(heap, n) # bfs(heap, n)

\* C8: for a well-formed text loaded into a fresh node in a depth-first
\* mode, leaves() is exactly the nodes without children, and their names
\* are the leaf labels of the text from left to right; the tree of
\* "((a,b),(c,d,e),f)" has the leaves a, b, c, d, e, f and size 9.
C8_LeavesInTextOrder ==
    (last.op = "newickLoad" /\ WellFormed(last.text)
       /\ heap[1].mode \in {"dfs", "dfs_stack"})
        => /\ last.ret = "True"
           /\ NoDup(leaves(heap, 1))
           /\ Range(leaves(heap, 1)) = {x \in Subtree(heap, 1) : heap[x].children = <<>>}
           /\ [i \in 1..Len(leaves(heap, 1)) |-> heap[leaves(heap, 1)[i]].name]
                 = LeafLabels(last.text)
           /\ last.text = trees0 =>
                 /\ [i \in 1..Len(leaves(heap, 1)) |-> heap[leaves(heap, 1)[i]].name]
                       = <<Some(<<"a">>), Some(<<"b">>), Some(<<"c">>),
                           Some(<<"d">>), Some(<<"e">>), Some(<<"f">>)>>
                 /\ size(heap, 1) = 9

C8_Witness ==
    /\ last.op = "newickLoad"
    /\ last.text = trees0
    /\ heap[1].mode = "dfs"
    /\ Len(leaves(heap, 1)) = 6

\* C9: in every state the calls reach, and in every mode, the size of a
\* node is 1 plus the sizes of its children, and 1 for a leaf.
C9_SizeLaw ==
    \A n \in Nodes(heap) :
        size(heap, n)
            = 1 + SumSeq([i \in 1..Len(heap[n].children) |-> size(heap, heap[n].children[i])])

C9_Witness ==
    \E n \in Nodes(heap) :
        /\ heap[n].mode = "bfs"
        /\ Len(heap[n].children) >= 2
        /\ size(heap, n) >= 4
        /\ \E c \in Range(heap[n].children) : heap[c].name = None /\ heap[c].children # <<>>
        /\ \E c \in Range(heap[n].children) : heap[c].name # None

\* C10 as stated: a second complete iteration of the same tree, with no
\* call in between, yields no node.
C10_SecondPassIsEmpty ==
    (last.op = "do" /\ last.again) => last.seq = <<>>

\* C10 as amended: a second complete iteration of the same tree, with no
\* call in between, yields again the nodes the first one yielded, the tree
\* itself first, and do() returns their number.
C10_SecondPassRepeats ==
    (last.op = "do" /\ last.again)
        => /\ last.seq = last.prev
           /\ last.seq # <<>>
           /\ last.seq[1] = last.node
           /\ Range(last.seq) = Subtree(heap, last.node)
           /\ last.count = Len(last.seq)

C10_Witness ==
    /\ last.op = "do"
    /\ last.again
    /\ Len(last.seq) >= 3
    /\ heap[last.node].mode = "bfs"

=============================================================================
